---- MODULE Spec2Model ----
(***************************************************************************)
(* Model of the WebGL replay engine (src/bin/cpp_src/webgl-main.cc with    *)
(* webgl-shared.h): main, Replay (LoadResources, GetBinData, Run,          *)
(* IssueNextStep, CreateContext, MakeContextCurrent), CanvasContext        *)
(* (constructor, MakeCurrent, Swap, GetObject, SetObject) and              *)
(* InitializeExtensions.  The recorded steps are opaque functions: a step  *)
(* is modelled as any bounded sequence of calls on the public interface    *)
(* of Replay and CanvasContext.  The Linux branch of LoadResources         *)
(* (readlink) is the one modelled.                                         *)
(***************************************************************************)
EXTENDS Integers, Sequences, FiniteSets, TLC

\* ------------------------------------------------------------- bounds
\* Largest __step_count of the recorded sequence.
MaxSteps == 2
\* Most interface calls the recorded steps make in one run, all steps together.
MaxOps == 3
\* Most CanvasContext objects created in one run.
MaxContexts == 2

\* ---------------------------------------------------------- constants
NULL == 0
\* size_t is modelled with a reduced width; arithmetic wraps modulo SIZE_MOD.
SizeBits == 2
SIZE_MOD == 2 ^ SizeBits
SizeT == 0 .. (SIZE_MOD - 1)
\* Address malloc returns on success (any non-null value).
BlobAddr == 64
\* Lengths of the .bin file the environment may hold.
FileLengths == {0, 2}

DefaultWidth == 800
DefaultHeight == 480
NoDim == -1
CloseSubEvent == 14

SurfaceHandles == {1, 2}
ObjectHandles == {0, 1}
NativeIds == {1, 2}
DimArgs == {<<NoDim, NoDim>>, <<DefaultWidth, DefaultHeight>>, <<640, DefaultHeight>>}
EventTypes == {"SDL_WINDOWEVENT_CLOSE", "SDL_QUIT", "SDL_WINDOWEVENT", "SDL_OTHER"}
Events == [type : EventTypes, window_event : {CloseSubEvent, 5}]

VARIABLES
  pc,                      \* position of the single thread of control
  exit_code,               \* process exit code once it is determined, else -1
  load_failure,            \* what the environment made fail in LoadResources
  load_result,             \* value LoadResources returned (FALSE while pc = "main")
  bin_data_,               \* Replay::bin_data_ (NULL or an address)
  bin_data_length_,        \* Replay::bin_data_length_
  step_count_,             \* Replay::step_count_
  step_index_,             \* Replay::step_index_
  running,                 \* local of Replay::Run
  contexts_,               \* Replay::contexts_ : sequence of CanvasContext objects
  context_map_,            \* Replay::context_map_ : handle -> index in contexts_, NULL
  extensions_initialized,  \* global flag
  ext_procs,               \* TRUE once the three entry points are resolved
  current,                 \* the backend's current context (index in contexts_, 0 none)
  viewport,                \* per GL context, the viewport last set
  swap_it,                 \* iterator of the swap loop of Run
  ops,                     \* interface calls made so far by the steps
  ret,                     \* the last interface call of the running step and its result
  invoked,                 \* history: indexes of the steps invoked, in order
  presented,               \* history: contexts swapped in the current frame, in order
  last_bound,              \* history: per context, handle -> id last passed to SetObject
  quit_observed,           \* history: an event set running to false
  step_current,            \* history: current context when the last step returned
  native,                  \* history: arguments and native calls of the last MakeCurrent
  bootstrap,               \* history: executions of the body of InitializeExtensions
  drained,                 \* history: kinds of events drained so far in this frame
  drains,                  \* history: number of event drains completed
  passes                   \* history: number of swap passes completed

vars == <<pc, exit_code, load_failure, load_result, bin_data_, bin_data_length_,
          step_count_, step_index_, running, contexts_, context_map_,
          extensions_initialized, ext_procs, current, viewport, swap_it, ops, ret,
          invoked, presented, last_bound, quit_observed, step_current,
          native, bootstrap, drained, drains, passes>>

replay_vars == <<bin_data_, bin_data_length_, step_count_>>
ctx_vars == <<contexts_, context_map_, extensions_initialized, ext_procs, current,
              viewport, last_bound>>
hist_vars == <<invoked, presented, quit_observed, step_current>>
frame_vars == <<drained, drains, passes>>

EmptyMap == [h \in {} |-> 0]
NoCall == [op |-> "none", ctx |-> 0, a |-> 0, b |-> 0, value |-> 0]
Call(op, ctx, a, b, value) == [op |-> op, ctx |-> ctx, a |-> a, b |-> b, value |-> value]
NoNative == [width |-> NoDim, height |-> NoDim, old |-> <<NoDim, NoDim>>, calls |-> <<>>]
NoBootstrap == [runs |-> 0, capability |-> "unknown", creating |-> 0,
                after_make_current |-> FALSE]

\* C++ conversion of an int to bool.
ToBool(i) == i # 0

\* unordered_map::operator[] : a missing key is inserted with a zero value.
MapIndex(m, k) == IF k \in DOMAIN m THEN m ELSE m @@ (k :> 0)

\* ------------------------------------------------------------- Replay
Init ==
  /\ pc = "main"
  /\ exit_code = -1
  /\ load_failure = "none"
  /\ load_result = FALSE
  /\ bin_data_ = NULL
  /\ bin_data_length_ = 0
  /\ step_count_ \in 0 .. MaxSteps
  /\ step_index_ = 0
  /\ running = TRUE
  /\ contexts_ = <<>>
  /\ context_map_ = EmptyMap
  /\ extensions_initialized = FALSE
  /\ ext_procs = FALSE
  /\ current = 0
  /\ viewport = <<>>
  /\ swap_it = 0
  /\ ops = 0
  /\ ret = NoCall
  /\ invoked = <<>>
  /\ presented = <<>>
  /\ last_bound = <<>>
  /\ quit_observed = FALSE
  /\ step_current = 0
  /\ native = NoNative
  /\ bootstrap = NoBootstrap
  /\ drained = "none"
  /\ drains = 0
  /\ passes = 0

\* Replay::LoadResources: the value returned and the fields it leaves.
LoadResources(readlink_failed, fopen_failed, malloc_failed, file_len) ==
  IF readlink_failed
    THEN [result |-> ToBool(1), data |-> bin_data_, len |-> bin_data_length_]
  ELSE IF fopen_failed
    THEN [result |-> FALSE, data |-> bin_data_, len |-> bin_data_length_]
  ELSE IF malloc_failed
    THEN [result |-> FALSE, data |-> NULL, len |-> file_len]
  ELSE [result |-> TRUE, data |-> BlobAddr, len |-> file_len]

\* The first call of LoadResources that failed ("none": the blob was loaded).
LoadFailure(readlink_failed, fopen_failed, malloc_failed) ==
  IF readlink_failed THEN "readlink"
  ELSE IF fopen_failed THEN "fopen"
  ELSE IF malloc_failed THEN "malloc"
  ELSE "none"

\* Replay::GetBinData on the current blob; size_t addition wraps.
GetBinData(offset, length) ==
  IF (offset + length) % SIZE_MOD > bin_data_length_
    THEN NULL
    ELSE bin_data_ + offset

\* main: construct, LoadResources, then return 1 or enter Run.
Main ==
  /\ pc = "main"
  /\ \E readlink_failed, fopen_failed, malloc_failed \in BOOLEAN,
        file_len \in FileLengths :
       LET r == LoadResources(readlink_failed, fopen_failed, malloc_failed, file_len) IN
         /\ load_failure' = LoadFailure(readlink_failed, fopen_failed, malloc_failed)
         /\ load_result' = r.result
         /\ bin_data_' = r.data
         /\ bin_data_length_' = r.len
         /\ IF ~r.result
              THEN pc' = "returned" /\ exit_code' = 1
              ELSE pc' = "poll" /\ exit_code' = exit_code
  /\ running' = TRUE
  /\ UNCHANGED <<step_count_, step_index_, ctx_vars, swap_it, ops, ret, hist_vars,
                 native, bootstrap, frame_vars>>

\* The event kinds the switch of Run names as ending the replay.
IsCloseEvent(event) ==
  \/ event.type \in {"SDL_WINDOWEVENT_CLOSE", "SDL_QUIT"}
  \/ event.type = "SDL_WINDOWEVENT" /\ event.window_event = CloseSubEvent

\* HandleEvent whose default case stops the loop too.
HandleEvent_DefaultStops(event) ==
  IF event.type = "SDL_WINDOWEVENT"
    THEN (IF event.window_event = CloseSubEvent THEN FALSE ELSE running)
    ELSE FALSE

\* One event returned by SDL_PollEvent in the drain loop of Run.
HandleEvent(event) ==
  IF event.type \in {"SDL_WINDOWEVENT_CLOSE", "SDL_QUIT"}
    THEN FALSE
  ELSE IF event.type = "SDL_WINDOWEVENT"
    THEN (IF event.window_event = CloseSubEvent THEN FALSE ELSE running)
  ELSE running

PollEvent ==
  /\ pc = "poll"
  /\ \E event \in Events :
       /\ running' = HandleEvent(event)
       /\ quit_observed' = (quit_observed \/ ~HandleEvent(event))
       /\ drained' = IF IsCloseEvent(event) \/ drained = "close" THEN "close" ELSE "other"
  /\ UNCHANGED <<pc, exit_code, load_failure, load_result, replay_vars, step_index_,
                 ctx_vars, swap_it, ops, ret, invoked, presented, step_current,
                 native, bootstrap, drains, passes>>

\* PollDone without the "if (!running) break;" test.
PollDone_NoBreak ==
  /\ pc = "poll"
  /\ pc' = "issue"
  /\ drains' = drains + 1
  /\ UNCHANGED <<exit_code, load_failure, load_result, replay_vars, step_index_, running,
                 ctx_vars, swap_it, ops, ret, hist_vars, native, bootstrap, drained,
                 passes>>

\* SDL_PollEvent returned 0: "if (!running) break;" and Run returns 0.
PollDone ==
  /\ pc = "poll"
  /\ IF ~running
       THEN pc' = "returned" /\ exit_code' = 0
       ELSE pc' = "issue" /\ exit_code' = exit_code
  /\ drains' = drains + 1
  /\ UNCHANGED <<load_failure, load_result, replay_vars, step_index_, running,
                 ctx_vars, swap_it, ops, ret, hist_vars, native, bootstrap, drained,
                 passes>>

\* Replay::IssueNextStep up to the call of the step: steps_[step_index_++].
IssueNextStep ==
  /\ pc = "issue"
  /\ step_index_ < step_count_
  /\ invoked' = Append(invoked, step_index_)
  /\ step_index_' = step_index_ + 1
  /\ pc' = "in_step"
  /\ ret' = NoCall
  /\ drained' = "none"
  /\ UNCHANGED <<exit_code, load_failure, load_result, replay_vars, running, ctx_vars,
                 swap_it, ops, presented, quit_observed, step_current, native,
                 bootstrap, drains, passes>>

\* IssueNextStep with the cursor at or past step_count_: steps_[step_index_] is read
\* outside the array and called.  Undefined behaviour: the process crashes, or
\* whatever was called returns and IssueNextStep goes on to its return statement.
IssueNextStepOutOfRange ==
  /\ pc = "issue"
  /\ step_index_ >= step_count_
  /\ step_index_' = step_index_ + 1
  /\ \E crash \in BOOLEAN :
       IF crash
         THEN /\ pc' = "crashed"
              /\ UNCHANGED <<invoked, running, swap_it, presented, step_current>>
         ELSE /\ invoked' = Append(invoked, step_index_)
              /\ running' = (step_index_' < step_count_)
              /\ pc' = "swap"
              /\ swap_it' = 1
              /\ presented' = <<>>
              /\ step_current' = current
  /\ drained' = "none"
  /\ UNCHANGED <<exit_code, load_failure, load_result, replay_vars, ctx_vars, ops, ret,
                 quit_observed, native, bootstrap, drains, passes>>

\* Run leaving the loop right after the last step, before the swap loop.
StepReturn_NoFinalSwap ==
  /\ pc = "in_step"
  /\ running' = (step_index_ < step_count_)
  /\ pc' = IF step_index_ < step_count_ THEN "swap" ELSE "delay"
  /\ swap_it' = 1
  /\ presented' = <<>>
  /\ ret' = NoCall
  /\ step_current' = current
  /\ native' = NoNative
  /\ UNCHANGED <<exit_code, load_failure, load_result, replay_vars, step_index_,
                 ctx_vars, ops, invoked, quit_observed, bootstrap, frame_vars>>

\* Run issuing the next step at once while steps remain (steps batched in a frame).
StepReturn_Batched ==
  /\ pc = "in_step"
  /\ running' = (step_index_ < step_count_)
  /\ pc' = IF step_index_ < step_count_ THEN "issue" ELSE "swap"
  /\ swap_it' = 1
  /\ presented' = <<>>
  /\ ret' = NoCall
  /\ step_current' = current
  /\ native' = NoNative
  /\ UNCHANGED <<exit_code, load_failure, load_result, replay_vars, step_index_,
                 ctx_vars, ops, invoked, quit_observed, bootstrap, frame_vars>>

\* The step returns: "return step_index_ < step_count_;" assigned to running,
\* and the swap loop of Run begins.
StepReturn ==
  /\ pc = "in_step"
  /\ running' = (step_index_ < step_count_)
  /\ pc' = "swap"
  /\ swap_it' = 1
  /\ presented' = <<>>
  /\ ret' = NoCall
  /\ step_current' = current
  /\ native' = NoNative
  /\ UNCHANGED <<exit_code, load_failure, load_result, replay_vars, step_index_,
                 ctx_vars, ops, invoked, quit_observed, bootstrap, frame_vars>>

\* -------------------------------------------------------- CanvasContext
\* SDL_GL_MakeCurrent(window_, gl_) of context i: the context becomes current when
\* both exist, otherwise no context is current.
SDLMakeCurrent(i, c) == IF c.window_ # NULL /\ c.gl_ # NULL THEN i ELSE 0

\* glViewport on the current context (no effect without one).
GLViewport(vp, cur, w, h) ==
  IF cur # 0 /\ cur <= Len(vp) THEN [vp EXCEPT ![cur] = <<w, h>>] ELSE vp

\* InitializeExtensions without the test of extensions_initialized.
InitializeExtensions_NoGuard(unsupported) ==
  IF unsupported
    THEN [initialized |-> TRUE, procs |-> ext_procs, exited |-> TRUE, ran |-> TRUE]
    ELSE [initialized |-> TRUE, procs |-> TRUE, exited |-> FALSE, ran |-> TRUE]

\* InitializeExtensions that prints the message and goes on instead of exit(1).
InitializeExtensions_NoExit(unsupported) ==
  IF extensions_initialized
    THEN [initialized |-> TRUE, procs |-> ext_procs, exited |-> FALSE, ran |-> FALSE]
    ELSE [initialized |-> TRUE, procs |-> TRUE, exited |-> FALSE, ran |-> TRUE]

\* global InitializeExtensions: the flag, the entry points, whether exit(1) ran,
\* and whether the body after the test of the flag was executed.
InitializeExtensions(unsupported) ==
  IF extensions_initialized
    THEN [initialized |-> TRUE, procs |-> ext_procs, exited |-> FALSE, ran |-> FALSE]
  ELSE IF unsupported
    THEN [initialized |-> TRUE, procs |-> ext_procs, exited |-> TRUE, ran |-> TRUE]
  ELSE [initialized |-> TRUE, procs |-> TRUE, exited |-> FALSE, ran |-> TRUE]

\* The constructor with InitializeExtensions called before the context exists.
ConstructorCalls_ExtensionsFirst ==
  <<"InitializeExtensions", "SDL_CreateWindow", "SDL_GL_CreateContext",
    "SDL_GL_MakeCurrent", "SDL_GL_SetSwapInterval", "SDL_GL_GetDrawableSize",
    "glViewport">>

\* CanvasContext::CanvasContext: the calls it makes, in order.
ConstructorCalls ==
  <<"SDL_CreateWindow", "SDL_GL_CreateContext", "SDL_GL_MakeCurrent",
    "InitializeExtensions", "SDL_GL_SetSwapInterval", "SDL_GL_GetDrawableSize",
    "glViewport">>

\* Whether call a comes before call b in a sequence of calls.
CalledBefore(calls, a, b) ==
  \E j, k \in 1 .. Len(calls) : j < k /\ calls[j] = a /\ calls[k] = b

\* The history of the bootstrap after a call of InitializeExtensions made while
\* context i is under construction.
BootstrapAfter(ext, unsupported, i) ==
  IF ~ext.ran THEN bootstrap
  ELSE [runs |-> bootstrap.runs + 1,
        capability |-> IF unsupported THEN "unsupported" ELSE "supported",
        creating |-> IF bootstrap.runs = 0 THEN i ELSE bootstrap.creating,
        after_make_current |->
          IF bootstrap.runs = 0
            THEN CalledBefore(ConstructorCalls, "SDL_GL_MakeCurrent",
                              "InitializeExtensions")
            ELSE bootstrap.after_make_current]

\* CanvasContext::CanvasContext: the object built for index i.  A failed
\* SDL_CreateWindow leaves window_ NULL, and then SDL_GL_CreateContext and
\* SDL_GL_GetDrawableSize fail too, leaving width_ and height_ unset (size is
\* then whatever the memory held).
CanvasContext(i, handle, window_failed, gl_failed, size) ==
  [handle_ |-> handle,
   window_ |-> IF window_failed THEN NULL ELSE i,
   gl_ |-> IF window_failed \/ gl_failed THEN NULL ELSE i,
   width_ |-> size[1],
   height_ |-> size[2],
   object_map_ |-> EmptyMap]

\* The native calls of the "Resized." branch of MakeCurrent.
ResizeCalls(width, height) ==
  <<<<"SDL_SetWindowSize", width, height>>, <<"glViewport", width, height>>>>

\* MakeCurrent without the comparison with the stored dimensions.
MakeCurrent_AlwaysResizes(i, width, height) ==
  LET c == contexts_[i]
      cur == SDLMakeCurrent(i, c)
      resized == width # NoDim /\ height # NoDim
  IN [context |-> IF resized THEN [c EXCEPT !.width_ = width, !.height_ = height] ELSE c,
      current |-> cur,
      viewport |-> IF resized THEN GLViewport(viewport, cur, width, height) ELSE viewport,
      resized |-> resized,
      calls |-> IF resized THEN ResizeCalls(width, height) ELSE <<>>]

\* CanvasContext::MakeCurrent on context i.
MakeCurrent(i, width, height) ==
  LET c == contexts_[i]
      cur == SDLMakeCurrent(i, c)
      resized == /\ width # NoDim /\ height # NoDim
                 /\ (width # c.width_ \/ height # c.height_)
  IN [context |-> IF resized THEN [c EXCEPT !.width_ = width, !.height_ = height] ELSE c,
      current |-> cur,
      viewport |-> IF resized THEN GLViewport(viewport, cur, width, height) ELSE viewport,
      resized |-> resized,
      calls |-> IF resized THEN ResizeCalls(width, height) ELSE <<>>]

\* GetObject as a lookup that inserts nothing (find instead of operator[]).
GetObject_PureLookup(object_map, handle) ==
  [value |-> IF handle # 0 /\ handle \in DOMAIN object_map THEN object_map[handle] ELSE 0,
   map |-> object_map]

\* GetObject without the test for handle 0.
GetObject_NoZeroTest(object_map, handle) ==
  [value |-> MapIndex(object_map, handle)[handle],
   map |-> MapIndex(object_map, handle)]

\* CanvasContext::GetObject: the value returned and the map it leaves.
GetObject(object_map, handle) ==
  IF handle # 0
    THEN [value |-> MapIndex(object_map, handle)[handle],
          map |-> MapIndex(object_map, handle)]
    ELSE [value |-> 0, map |-> object_map]

\* SetObject that keeps an existing entry (insert instead of operator[]).
SetObject_InsertOnly(object_map, handle, id) ==
  IF handle \in DOMAIN object_map THEN object_map ELSE object_map @@ (handle :> id)

\* CanvasContext::SetObject: the map it leaves.
SetObject(object_map, handle, id) ==
  [MapIndex(object_map, handle) EXCEPT ![handle] = id]

\* ------------------------------------------- calls made by a recorded step
InStep == pc = "in_step" /\ ops < MaxOps

\* Replay::CreateContext(handle), with what the environment answers.
StepCreateContext ==
  /\ InStep
  /\ Len(contexts_) < MaxContexts
  /\ \E handle \in SurfaceHandles, window_failed, gl_failed, unsupported \in BOOLEAN,
        size \in DimArgs \ {<<NoDim, NoDim>>} :
       /\ ~window_failed => size = <<DefaultWidth, DefaultHeight>>
       /\ window_failed => gl_failed
       /\ LET i == Len(contexts_) + 1
              c == CanvasContext(i, handle, window_failed, gl_failed, size)
              cur == SDLMakeCurrent(i, c)
              ext == InitializeExtensions(unsupported)
          IN /\ extensions_initialized' = ext.initialized
             /\ ext_procs' = ext.procs
             /\ current' = cur
             /\ bootstrap' = BootstrapAfter(ext, unsupported, i)
             /\ IF ext.exited
                  THEN /\ pc' = "exited"
                       /\ exit_code' = 1
                       /\ UNCHANGED <<contexts_, context_map_, viewport, last_bound,
                                      ops, ret>>
                  ELSE /\ contexts_' = Append(contexts_, c)
                       /\ context_map_' = [MapIndex(context_map_, handle)
                                             EXCEPT ![handle] = i]
                       /\ viewport' = GLViewport(Append(viewport, <<0, 0>>), cur,
                                                 c.width_, c.height_)
                       /\ last_bound' = Append(last_bound, EmptyMap)
                       /\ ops' = ops + 1
                       /\ ret' = Call("CreateContext", i, handle, 0, i)
                       /\ UNCHANGED <<pc, exit_code>>
  /\ native' = NoNative
  /\ UNCHANGED <<load_failure, load_result, replay_vars, step_index_, running, swap_it,
                 hist_vars, frame_vars>>

\* Replay::MakeContextCurrent(handle, width, height).  context_map_[handle] inserts
\* NULL for an unknown handle, and the call through NULL is undefined behaviour:
\* the process crashes, or the call does nothing.
StepMakeContextCurrent ==
  /\ InStep
  /\ \E handle \in SurfaceHandles, dim \in DimArgs, crash \in BOOLEAN :
       LET map == MapIndex(context_map_, handle)
           i == map[handle]
       IN /\ context_map_' = map
          /\ IF i = NULL
               THEN /\ pc' = IF crash THEN "crashed" ELSE pc
                    /\ native' = NoNative
                    /\ UNCHANGED <<contexts_, current, viewport>>
               ELSE /\ ~crash
                    /\ LET m == MakeCurrent(i, dim[1], dim[2]) IN
                         /\ contexts_' = [contexts_ EXCEPT ![i] = m.context]
                         /\ current' = m.current
                         /\ viewport' = m.viewport
                         /\ native' = [width |-> dim[1], height |-> dim[2],
                                       old |-> <<contexts_[i].width_, contexts_[i].height_>>,
                                       calls |-> m.calls]
                    /\ pc' = pc
          /\ ret' = Call("MakeContextCurrent", i, handle, 0, i)
  /\ ops' = ops + 1
  /\ UNCHANGED <<exit_code, load_failure, load_result, replay_vars, step_index_, running,
                 extensions_initialized, ext_procs, last_bound, swap_it, hist_vars,
                 bootstrap, frame_vars>>

\* SetObject on one table shared by every context (a static object_map_).
StepSetObject_SharedTable ==
  /\ InStep
  /\ \E i \in 1 .. Len(contexts_), handle \in ObjectHandles, id \in NativeIds :
       /\ contexts_' = [j \in 1 .. Len(contexts_) |->
                          [contexts_[j] EXCEPT
                             !.object_map_ = SetObject(@, handle, id)]]
       /\ last_bound' = [last_bound EXCEPT ![i] = (handle :> id) @@ @]
       /\ ret' = Call("SetObject", i, handle, id, 0)
  /\ ops' = ops + 1
  /\ native' = NoNative
  /\ UNCHANGED <<pc, exit_code, load_failure, load_result, replay_vars, step_index_,
                 running, context_map_, extensions_initialized, ext_procs, current,
                 viewport, swap_it, hist_vars, bootstrap, frame_vars>>

\* context->SetObject(handle, id) on a context the step holds a pointer to.
StepSetObject ==
  /\ InStep
  /\ \E i \in 1 .. Len(contexts_), handle \in ObjectHandles, id \in NativeIds :
       /\ contexts_' = [contexts_ EXCEPT
                          ![i].object_map_ = SetObject(@, handle, id)]
       /\ last_bound' = [last_bound EXCEPT ![i] = (handle :> id) @@ @]
       /\ ret' = Call("SetObject", i, handle, id, 0)
  /\ ops' = ops + 1
  /\ native' = NoNative
  /\ UNCHANGED <<pc, exit_code, load_failure, load_result, replay_vars, step_index_,
                 running, context_map_, extensions_initialized, ext_procs, current,
                 viewport, swap_it, hist_vars, bootstrap, frame_vars>>

\* context->GetObject(handle) on a context the step holds a pointer to.
StepGetObject ==
  /\ InStep
  /\ \E i \in 1 .. Len(contexts_), handle \in ObjectHandles :
       LET g == GetObject(contexts_[i].object_map_, handle) IN
         /\ contexts_' = [contexts_ EXCEPT ![i].object_map_ = g.map]
         /\ ret' = Call("GetObject", i, handle, 0, g.value)
  /\ ops' = ops + 1
  /\ native' = NoNative
  /\ UNCHANGED <<pc, exit_code, load_failure, load_result, replay_vars, step_index_,
                 running, context_map_, extensions_initialized, ext_procs, current,
                 viewport, last_bound, swap_it, hist_vars, bootstrap, frame_vars>>

\* replay->GetBinData(offset, length).
StepGetBinData ==
  /\ InStep
  /\ \E offset, length \in SizeT :
       ret' = Call("GetBinData", 0, offset, length, GetBinData(offset, length))
  /\ ops' = ops + 1
  /\ native' = NoNative
  /\ UNCHANGED <<pc, exit_code, load_failure, load_result, replay_vars, step_index_,
                 running, ctx_vars, swap_it, hist_vars, bootstrap, frame_vars>>

\* ------------------------------------------------- rest of Replay::Run
\* Swap loop walking contexts_ from the back.
Swap_Reversed ==
  /\ pc = "swap"
  /\ swap_it <= Len(contexts_)
  /\ LET i == Len(contexts_) + 1 - swap_it IN
       /\ current' = SDLMakeCurrent(i, contexts_[i])
       /\ presented' = Append(presented, i)
  /\ swap_it' = swap_it + 1
  /\ UNCHANGED <<pc, exit_code, load_failure, load_result, replay_vars, step_index_,
                 running, contexts_, context_map_, extensions_initialized, ext_procs,
                 viewport, last_bound, ops, ret, invoked, quit_observed, step_current,
                 native, bootstrap, frame_vars>>

\* Swap without its SDL_GL_MakeCurrent.
Swap_NoMakeCurrent ==
  /\ pc = "swap"
  /\ swap_it <= Len(contexts_)
  /\ presented' = Append(presented, swap_it)
  /\ swap_it' = swap_it + 1
  /\ UNCHANGED <<pc, exit_code, load_failure, load_result, replay_vars, step_index_,
                 running, ctx_vars, ops, ret, invoked, quit_observed, step_current,
                 native, bootstrap, frame_vars>>

\* CanvasContext::Swap on the context the iterator points at, and ++it.
Swap ==
  /\ pc = "swap"
  /\ swap_it <= Len(contexts_)
  /\ current' = SDLMakeCurrent(swap_it, contexts_[swap_it])
  /\ presented' = Append(presented, swap_it)
  /\ swap_it' = swap_it + 1
  /\ UNCHANGED <<pc, exit_code, load_failure, load_result, replay_vars, step_index_,
                 running, contexts_, context_map_, extensions_initialized, ext_procs,
                 viewport, last_bound, ops, ret, invoked, quit_observed, step_current,
                 native, bootstrap, frame_vars>>

\* it == contexts_.end(): the swap loop ends and SDL_Delay(16) is reached.
SwapDone ==
  /\ pc = "swap"
  /\ swap_it > Len(contexts_)
  /\ pc' = "delay"
  /\ passes' = passes + 1
  /\ UNCHANGED <<exit_code, load_failure, load_result, replay_vars, step_index_, running,
                 ctx_vars, swap_it, ops, ret, hist_vars, native, bootstrap, drained,
                 drains>>

\* SDL_Delay returns and "while (running)" is tested; Run returns 0 when false.
Delay ==
  /\ pc = "delay"
  /\ IF running
       THEN pc' = "poll" /\ exit_code' = exit_code
       ELSE pc' = "returned" /\ exit_code' = 0
  /\ UNCHANGED <<load_failure, load_result, replay_vars, step_index_, running, ctx_vars,
                 swap_it, ops, ret, hist_vars, native, bootstrap, frame_vars>>

\* main returns: Replay::~Replay deletes every context and frees the blob.
Destroy ==
  /\ pc = "returned"
  /\ pc' = "terminated"
  /\ current' = 0
  /\ UNCHANGED <<exit_code, load_failure, load_result, replay_vars, step_index_, running,
                 contexts_, context_map_, extensions_initialized, ext_procs, viewport,
                 last_bound, swap_it, ops, ret, hist_vars, native, bootstrap,
                 frame_vars>>

Next ==
  \/ Main
  \/ PollEvent
  \/ PollDone
  \/ IssueNextStep
  \/ IssueNextStepOutOfRange
  \/ StepReturn
  \/ StepCreateContext
  \/ StepMakeContextCurrent
  \/ StepSetObject
  \/ StepGetObject
  \/ StepGetBinData
  \/ Swap
  \/ SwapDone
  \/ Delay
  \/ Destroy

Spec == Init /\ [][Next]_vars

\* ------------------------------------------------------------ properties
Stopped == pc \in {"returned", "terminated"}
Handles == {contexts_[i].handle_ : i \in 1 .. Len(contexts_)}
AllCreated ==
  \A i \in 1 .. Len(contexts_) : contexts_[i].window_ # NULL /\ contexts_[i].gl_ # NULL

\* C1: a run of Replay::Run in which no quit/close event is drained invokes the
\* recorded steps 0 .. N-1 in that order, N invocations in all, and ends with
\* step_index_ = N, for every N >= 0.  (Stated of runs that loaded the blob.)
C1_FullRunInvokesEachStepOnce ==
  (Stopped /\ exit_code = 0 /\ ~quit_observed /\ load_failure = "none") =>
    /\ invoked = [k \in 1 .. step_count_ |-> k - 1]
    /\ step_index_ = step_count_

\* C2: once a quit event, a close-window event or the window-close sub-event has
\* been drained, no step is invoked, no context is presented and step_index_
\* keeps its value: the loop only finishes the drain and returns.
C2_QuitHaltsReplay ==
  [][quit_observed' =>
       /\ invoked' = invoked
       /\ presented' = presented
       /\ step_index_' = step_index_
       /\ pc' \in {"poll", "returned", "terminated"}]_vars

C2_Witness ==
  /\ quit_observed
  /\ pc = "returned"
  /\ 0 < step_index_
  /\ step_index_ < step_count_
  /\ Len(contexts_) > 0

\* C3: a read returns data (a non-null view) exactly when offset + length, as a
\* mathematical sum, does not exceed the length of the loaded blob.
C3_ReadIffWithinBlob ==
  (ret.op = "GetBinData" /\ load_failure = "none") =>
    ((ret.value # NULL) <=> (ret.a + ret.b <= bin_data_length_))

\* C4: whenever the blob could not be loaded (whatever failed) no step is ever
\* invoked and the process exits with 1; a clean termination exits with 0.
C4_ExitCodeTellsLoadFailure ==
  /\ load_failure # "none" => (invoked = <<>> /\ (Stopped => exit_code = 1))
  /\ (load_failure = "none" /\ Stopped) => exit_code = 0

\* C5: on every context, resolving a non-zero handle that has been bound returns
\* the id most recently bound to it, whatever binds and resolves came between.
C5_ResolveReturnsLastBound ==
  /\ \A i \in 1 .. Len(contexts_) : \A h \in DOMAIN last_bound[i] :
       h # 0 => GetObject(contexts_[i].object_map_, h).value = last_bound[i][h]
  /\ (ret.op = "GetObject" /\ ret.a # 0 /\ ret.a \in DOMAIN last_bound[ret.ctx])
       => ret.value = last_bound[ret.ctx][ret.a]

C5_Witness ==
  /\ ret.op = "GetObject"
  /\ ret.a = 1
  /\ 1 \in DOMAIN last_bound[ret.ctx]
  /\ last_bound[ret.ctx][1] = 2
  /\ ret.value = 2

\* C6: resolving handle 0 returns 0 ("no object") on every context in every
\* state, also when the handle table holds an entry for 0.
C6_ResolveZeroIsNoObject ==
  /\ \A i \in 1 .. Len(contexts_) : GetObject(contexts_[i].object_map_, 0).value = 0
  /\ (ret.op = "GetObject" /\ ret.a = 0) => ret.value = 0

C6_Witness ==
  /\ ret.op = "GetObject"
  /\ ret.a = 0
  /\ ret.value = 0
  /\ 0 \in DOMAIN contexts_[ret.ctx].object_map_
  /\ contexts_[ret.ctx].object_map_[0] # 0

\* C7: a frame that no quit/close event cut short presents every context exactly
\* once, in creation order, whichever context the step left current.
C7_PresentAllInCreationOrder ==
  /\ pc = "swap" => presented = [k \in 1 .. (swap_it - 1) |-> k]
  /\ pc = "delay" => presented = [k \in 1 .. Len(contexts_) |-> k]

C7_Witness ==
  /\ pc = "delay"
  /\ Len(contexts_) = 2
  /\ contexts_[1].handle_ = 1
  /\ contexts_[2].handle_ = 2
  /\ step_current = 1
  /\ presented = <<1, 2>>

\* C8: there is one context per distinct handle passed to CreateContext, repeated
\* handles included, and each owned context is the one its handle maps to.
\* (Stated of runs in which the blob was loaded and every window was created.)
C8_OneContextPerHandle ==
  (load_failure = "none" /\ AllCreated) =>
  /\ Len(contexts_) = Cardinality(Handles)
  /\ \A i \in 1 .. Len(contexts_) :
       /\ contexts_[i].handle_ \in DOMAIN context_map_
       /\ context_map_[contexts_[i].handle_] = i

\* C9: a context whose window or graphics context could not be created is never
\* registered (the process terminates instead).
C9_NoContextWithoutWindow ==
  load_failure = "none" => AllCreated

\* C10: a LoadResources that fails on fopen or malloc returns false and leaves
\* bin_data_ NULL and bin_data_length_ 0, so that every read returns NULL.
\* (Reads whose sum offset + length wraps are the subject of C3 and left out.)
C10_FailedLoadKeepsNothing ==
  load_failure \in {"fopen", "malloc"} =>
    /\ load_result = FALSE
    /\ bin_data_ = NULL
    /\ bin_data_length_ = 0
    /\ \A offset, length \in SizeT :
         offset + length < SIZE_MOD => GetBinData(offset, length) = NULL

\* C11: after MakeCurrent(width, height) on a context: explicit dimensions equal
\* to the stored ones issue no SDL_SetWindowSize and no glViewport and keep the
\* stored dimensions; explicit dimensions that differ become the stored
\* dimensions and are passed to SDL_SetWindowSize and glViewport, so that the
\* viewport of the context that is current has them; no dimensions (-1, -1) keep
\* the stored dimensions.
C11_ResizeOnlyOnChange ==
  (ret.op = "MakeContextCurrent" /\ ret.ctx # NULL) =>
    LET c == contexts_[ret.ctx]
        stored == <<c.width_, c.height_>>
        given == <<native.width, native.height>>
        explicit == native.width # NoDim /\ native.height # NoDim
    IN /\ (explicit /\ given = native.old) =>
            /\ native.calls = <<>>
            /\ stored = native.old
       /\ (explicit /\ given # native.old) =>
            /\ stored = given
            /\ native.calls = <<<<"SDL_SetWindowSize", given[1], given[2]>>,
                                <<"glViewport", given[1], given[2]>>>>
            /\ current # 0 => viewport[current] = given
            /\ c.gl_ # NULL => (current = ret.ctx /\ viewport[ret.ctx] = given)
       /\ ~explicit =>
            /\ native.calls = <<>>
            /\ stored = native.old

C11_Witness ==
  /\ ret.op = "MakeContextCurrent"
  /\ ret.ctx = 1
  /\ Len(contexts_) = 2
  /\ native.old = <<DefaultWidth, DefaultHeight>>
  /\ native.width = 640
  /\ contexts_[1].width_ = 640
  /\ viewport[1] = <<640, DefaultHeight>>
  /\ viewport[2] = <<DefaultWidth, DefaultHeight>>
  /\ Len(native.calls) = 2

\* C12: the body of InitializeExtensions (the query and the resolution of the
\* entry points) is executed at most once in a process; once the flag is set no
\* call changes the flag, the entry points or the record of the execution.
C12_BootstrapAtMostOnce ==
  [][/\ bootstrap'.runs <= 1
     /\ extensions_initialized =>
          /\ extensions_initialized'
          /\ ext_procs' = ext_procs
          /\ bootstrap' = bootstrap]_vars

C12_Witness ==
  /\ Len(contexts_) = 2
  /\ ret.op = "CreateContext"
  /\ ret.ctx = 2
  /\ bootstrap.runs = 1
  /\ bootstrap.creating = 1
  /\ ext_procs

\* C13: when the capability is reported unsupported the process has exited with
\* code 1 inside the bootstrap: the context under construction is in neither
\* contexts_ nor context_map_, the CreateContext call has not returned, and
\* nothing more happens (no step, no presentation, no other transition).
C13_UnsupportedIsFatal ==
  bootstrap.capability = "unsupported" =>
    /\ pc = "exited"
    /\ exit_code = 1
    /\ contexts_ = <<>>
    /\ \A h \in DOMAIN context_map_ : context_map_[h] = NULL
    /\ ret.op # "CreateContext"
    /\ Len(invoked) = step_index_
    /\ ~ENABLED Next

C13_Witness ==
  /\ bootstrap.capability = "unsupported"
  /\ pc = "exited"
  /\ step_index_ = 1
  /\ step_count_ = 2
  /\ ret.op = "MakeContextCurrent"

\* C14: events other than SDL_QUIT, SDL_WINDOWEVENT_CLOSE and the close
\* sub-event never stop the replay: the drain leaves step_index_, contexts_,
\* context_map_ and every handle table as they are; while only such events have
\* been drained running stays true, the drain is followed by IssueNextStep, the
\* step at the cursor is invoked, and the frame's swap loop presents every
\* context.
C14_OtherEventsNeverStop ==
  [][/\ pc = "poll" =>
          /\ step_index_' = step_index_
          /\ contexts_' = contexts_
          /\ context_map_' = context_map_
          /\ invoked' = invoked
     /\ (pc = "poll" /\ drained' = "other") => running'
     /\ (pc = "poll" /\ drained = "other" /\ pc' # "poll") => pc' = "issue"
     /\ (pc = "issue" /\ drained = "other" /\ step_index_ < step_count_) =>
          /\ pc' = "in_step"
          /\ invoked' = Append(invoked, step_index_)
     /\ (pc = "swap" /\ pc' # "swap") =>
          /\ pc' = "delay"
          /\ presented' = [k \in 1 .. Len(contexts_) |-> k]]_vars

C14_Witness ==
  /\ pc = "issue"
  /\ drained = "other"
  /\ running
  /\ step_index_ = 1
  /\ step_count_ = 2
  /\ Len(contexts_) = 2
  /\ 1 \in DOMAIN contexts_[1].object_map_

\* C15: the frame whose step brings step_index_ to step_count_ still runs the
\* swap loop over every context, those the step created included; the loop
\* condition is tested only after that, Run returns, and no event is drained and
\* no step is invoked afterwards.
C15_LastFramePresentsThenStops ==
  [][/\ (pc = "in_step" /\ pc' \notin {"in_step", "crashed", "exited"}) =>
          /\ pc' = "swap"
          /\ swap_it' = 1
     /\ (pc' = "delay" /\ ~running') =>
          presented' = [k \in 1 .. Len(contexts_') |-> k]
     /\ (pc = "delay" /\ ~running) =>
          /\ pc' = "returned"
          /\ exit_code' = 0
     /\ ((pc = "delay" /\ ~running) \/ Stopped) =>
          /\ pc' \in {"returned", "terminated"}
          /\ invoked' = invoked
          /\ presented' = presented
          /\ drains' = drains
          /\ passes' = passes]_vars

C15_Witness ==
  /\ pc = "returned"
  /\ exit_code = 0
  /\ ~quit_observed
  /\ step_count_ = 1
  /\ step_index_ = 1
  /\ invoked = <<0>>
  /\ Len(contexts_) = 2
  /\ presented = <<1, 2>>
  /\ passes = 1

\* C16: one step per frame.  When step number step_index_ is about to be issued,
\* step_index_ + 1 drains and step_index_ swap passes have been completed, so
\* that exactly one swap pass and one drain lie between two invocations, and
\* every iteration that reaches IssueNextStep moves the cursor by one.
C16_OneStepPerFrame ==
  /\ pc \in {"poll", "issue", "in_step", "swap", "delay"} =>
       /\ Len(invoked) = step_index_
       /\ \A k \in 1 .. Len(invoked) : invoked[k] = k - 1
  /\ pc \in {"poll", "delay"} => (drains = step_index_ /\ passes = step_index_)
  /\ pc = "issue" => (drains = step_index_ + 1 /\ passes = step_index_)
  /\ pc \in {"in_step", "swap"} => (drains = step_index_ /\ passes = step_index_ - 1)

C16_Witness ==
  /\ pc = "in_step"
  /\ invoked = <<0, 1>>
  /\ step_index_ = 2
  /\ drains = 2
  /\ passes = 1
  /\ Len(contexts_) = 2
  /\ presented = <<>>

C18_TablesNotShared ==
  [][(ret'.op = "SetObject" /\ ops' = ops + 1) =>
       \A j \in 1 .. Len(contexts_) : j # ret'.ctx =>
         /\ contexts_'[j].object_map_ = contexts_[j].object_map_
         /\ \A h \in ObjectHandles :
              GetObject(contexts_'[j].object_map_, h).value =
                GetObject(contexts_[j].object_map_, h).value]_vars

C18_Witness ==
  /\ ret.op = "SetObject"
  /\ ret.ctx = 1
  /\ ret.a = 1
  /\ Len(contexts_) = 2
  /\ contexts_[1].object_map_[1] = 2
  /\ contexts_[2].object_map_ = EmptyMap

\* C19: between the swap loop of a frame with contexts and the next step, the
\* context current in the backend is the one the last Swap made current, the
\* last of contexts_ (the current one is that context whenever its graphics
\* context exists); what the previous step left current is still current only
\* if it is that last context.
C19_LastCreatedIsCurrentAtStepStart ==
  (pc \in {"delay", "poll", "issue"} /\ Len(contexts_) >= 1) =>
    LET n == Len(contexts_) IN
      /\ presented[Len(presented)] = n
      /\ current = SDLMakeCurrent(n, contexts_[n])
      /\ contexts_[n].gl_ # NULL => current = n
      /\ (current # 0 /\ current = step_current) => step_current = n

C19_Witness ==
  /\ pc = "issue"
  /\ Len(contexts_) = 2
  /\ step_index_ = 1
  /\ step_current = 1
  /\ current = 2

\* C20: GetObject(h) with h non-zero and absent from object_map_ returns 0 and
\* leaves the entry h -> 0 in the map of that context, so the set of mapped
\* handles grows; GetObject(0) and GetObject of a mapped handle leave the map as
\* it was.
C20_ResolveInsertsZero ==
  [][(ret'.op = "GetObject" /\ ops' = ops + 1) =>
       LET i == ret'.ctx
           h == ret'.a
           old == contexts_[i].object_map_
           new == contexts_'[i].object_map_
       IN /\ (h # 0 /\ h \notin DOMAIN old) =>
               /\ ret'.value = 0
               /\ DOMAIN new = DOMAIN old \cup {h}
               /\ new[h] = 0
               /\ \A k \in DOMAIN old : new[k] = old[k]
          /\ (h = 0 \/ h \in DOMAIN old) => new = old]_vars

C20_Witness ==
  /\ ret.op = "GetObject"
  /\ ret.a = 1
  /\ ret.value = 0
  /\ DOMAIN contexts_[ret.ctx].object_map_ = {1}
  /\ contexts_[ret.ctx].object_map_[1] = 0
  /\ DOMAIN last_bound[ret.ctx] = {}

====
